---------------------------- MODULE Spec2Model ----------------------------
(***************************************************************************)
(* Proof-of-stake kernel of ClamsE (src/src/pos.cpp): the stake modifier   *)
(* engine (ComputeNextStakeModifier and its helpers), the two kernel hash  *)
(* checks, and the validator entry points CheckProofOfStake, CheckKernel   *)
(* and CheckCoinStakeTimestamp.                                            *)
(*                                                                         *)
(* The active chain is a sequence of block index nodes: chain[i] is the    *)
(* node of height i-1, its pprev is chain[i-1] and its pnext chain[i+1].   *)
(* A node reference is an index into chain, 0 being the null pointer.      *)
(* mapBlockIndex maps a block hash to its node.                            *)
(* A 64-bit stake modifier is the set of its bit positions that are 1, so  *)
(* that all 64 rounds keep their place without 64-bit arithmetic.          *)
(* Hashes are HashBits wide instead of 256, and times, amounts and the     *)
(* consensus parameters are small numbers of the same shape.               *)
(***************************************************************************)
EXTENDS Integers, Sequences, FiniteSets, TLC

VARIABLES chain, mapBlockIndex, ret

vars == <<chain, mapBlockIndex, ret>>

----------------------------------------------------------------------------
(* Parameters and widths *)

\* width of a hash (uint256 in the code)
HashBits == 8

\* Consensus::CParams::nModifierInterval, in seconds
nModifierInterval == 4

\* MODIFIER_INTERVAL_RATIO
MODIFIER_INTERVAL_RATIO == 3

\* the number of selection sections and of bits of a stake modifier
ModifierBits == 64

\* the longest chain ConnectBlock grows from the genesis block
MaxChain == 4

\* the length of the long chain the engine is also run on
LongLen == 80

\* Consensus::CParams::nStakeMinAge and nStakeMaxAge, in seconds
nStakeMinAge == 3

nStakeMaxAge == 6

\* Consensus::CParams::nProtocolV2Height
nProtocolV2Height == 4

\* Consensus::CParams::nCoinbaseMaturity, in blocks
nCoinbaseMaturity == 2

\* the satoshis of a coin, and the seconds of a day (24 * 60 * 60)
COIN == 2

SecondsPerDay == 2

\* the blocks after genesis of the chains GetKernelStakeModifier walks
WalkLen == 5

\* STAKE_TIMESTAMP_MASK
STAKE_TIMESTAMP_MASK == 15

RECURSIVE Pow2(_)
Pow2(n) == IF n = 0 THEN 1 ELSE 2 * Pow2(n - 1)

HashSpace == Pow2(HashBits)

Min(a, b) == IF a < b THEN a ELSE b

----------------------------------------------------------------------------
(* Hashing and serialization *)

\* Hash(ss.begin(), ss.end()) over the serialized fields `fields`: a fixed
\* mixing function onto the HashBits-wide hash space.
RECURSIVE HashFrom(_, _)
HashFrom(acc, fields) ==
    IF fields = <<>> THEN acc
    ELSE HashFrom((acc * 31 + Head(fields) + 7) % HashSpace, Tail(fields))

Hash(fields) == HashFrom(5, fields)

\* byte k of a 64-bit modifier (a set of bit positions)
ModifierByte(m, k) ==
    LET Bit(b) == IF 8 * k + b \in m THEN 1 ELSE 0 IN
    Bit(0) + 2 * Bit(1) + 4 * Bit(2) + 8 * Bit(3)
        + 16 * Bit(4) + 32 * Bit(5) + 64 * Bit(6) + 128 * Bit(7)

\* ss << nStakeModifier: the eight bytes of a uint64_t, lowest first
SerializeModifier(m) == [k \in 1..8 |-> ModifierByte(m, k - 1)]

\* the shift of hashSelection >>= 32 (of 256 bits): here all but two of
\* the HashBits, so that equal selection hashes occur among the candidates
ShiftBits == HashBits - 2

----------------------------------------------------------------------------
(* Block index *)

\* pindex->pprev
pprev(i) == i - 1

\* pindex->pnext on the active chain (0 at the tip)
pnext(c, i) == IF i < Len(c) THEN i + 1 ELSE 0

\* the block index map of the chain c: every node under its hash
IndexOf(c) ==
    [h \in {c[i].hashBlock : i \in 1..Len(c)} |->
        CHOOSE i \in 1..Len(c) : c[i].hashBlock = h]

----------------------------------------------------------------------------
(* Stake modifier engine.  A loop of the code is its body, a step on the   *)
(* loop's locals, applied over the range of its iterations in order; the   *)
(* range is split in halves so that a long loop nests only a few levels,   *)
(* and the first half is evaluated (first = first) before the second.      *)

\* one iteration of the while loop of GetLastStakeModifier
LastModifierStep(c, pindex) ==
    IF pindex # 0 /\ pprev(pindex) # 0 /\ ~c[pindex].fGenerated
    THEN pprev(pindex) ELSE pindex

RECURSIVE LastModifierWalk(_, _, _, _)
LastModifierWalk(c, pindex, lo, hi) ==
    IF lo > hi THEN pindex
    ELSE IF lo = hi THEN LastModifierStep(c, pindex)
    ELSE LET mid == (lo + hi) \div 2
             first == LastModifierWalk(c, pindex, lo, mid)
         IN IF first = first
            THEN LastModifierWalk(c, first, mid + 1, hi)
            ELSE first

\* the walk back started at the block before pindex
GetLastStakeModifierBeforePrev(c, pindex) ==
    IF pindex = 0
    THEN [ok |-> FALSE, nStakeModifier |-> {}, nModifierTime |-> 0]
    ELSE LET from == IF pprev(pindex) # 0 THEN pprev(pindex) ELSE pindex
             i == LastModifierWalk(c, from, 1, from)
         IN IF ~c[i].fGenerated
            THEN [ok |-> FALSE, nStakeModifier |-> {}, nModifierTime |-> 0]
            ELSE [ok |-> TRUE, nStakeModifier |-> c[i].nStakeModifier,
                  nModifierTime |-> c[i].nTime]

\* GetLastStakeModifier: [ok, nStakeModifier, nModifierTime]
GetLastStakeModifier(c, pindex) ==
    IF pindex = 0
    THEN [ok |-> FALSE, nStakeModifier |-> {}, nModifierTime |-> 0]
    ELSE LET i == LastModifierWalk(c, pindex, 1, pindex) IN
         IF ~c[i].fGenerated
         THEN [ok |-> FALSE, nStakeModifier |-> {}, nModifierTime |-> 0]
         ELSE [ok |-> TRUE, nStakeModifier |-> c[i].nStakeModifier,
               nModifierTime |-> c[i].nTime]

GetStakeModifierSelectionIntervalSection(nSection) ==
    (nModifierInterval * 63)
        \div (63 + ((63 - nSection) * (MODIFIER_INTERVAL_RATIO - 1)))

\* the sections lo..hi added up
RECURSIVE SectionSum(_, _)
SectionSum(lo, hi) ==
    IF lo > hi THEN 0
    ELSE IF lo = hi THEN GetStakeModifierSelectionIntervalSection(lo)
    ELSE LET mid == (lo + hi) \div 2 IN SectionSum(lo, mid) + SectionSum(mid + 1, hi)

GetStakeModifierSelectionInterval == SectionSum(0, 63)

\* operator< of pair<int64_t, uint256>
PairLess(a, b) == a[1] < b[1] \/ (a[1] = b[1] /\ a[2] < b[2])

\* reverse(v.begin(), v.end())
Reverse(s) == [k \in 1..Len(s) |-> s[Len(s) + 1 - k]]

\* x put in its place in the ascending sequence acc
InsertSorted(acc, x) ==
    LET p == Cardinality({i \in 1..Len(acc) : ~PairLess(x, acc[i])}) IN
    SubSeq(acc, 1, p) \o <<x>> \o SubSeq(acc, p + 1, Len(acc))

RECURSIVE SortRange(_, _, _, _)
SortRange(s, acc, lo, hi) ==
    IF lo > hi THEN acc
    ELSE IF lo = hi THEN InsertSorted(acc, s[lo])
    ELSE LET mid == (lo + hi) \div 2
             first == SortRange(s, acc, lo, mid)
         IN IF first = first
            THEN SortRange(s, first, mid + 1, hi)
            ELSE first

\* sort(v.begin(), v.end())
Sort(s) == SortRange(s, <<>>, 1, Len(s))

\* one iteration of the candidate walk of ComputeNextStakeModifier
CollectStep(c, nSelectionIntervalStart, st) ==
    IF st.pindex # 0 /\ c[st.pindex].nTime >= nSelectionIntervalStart
    THEN [pindex |-> pprev(st.pindex),
          v |-> Append(st.v, <<c[st.pindex].nTime, c[st.pindex].hashBlock>>)]
    ELSE [pindex |-> 0, v |-> st.v]

RECURSIVE CollectRange(_, _, _, _, _)
CollectRange(c, nSelectionIntervalStart, st, lo, hi) ==
    IF lo > hi THEN st
    ELSE IF lo = hi THEN CollectStep(c, nSelectionIntervalStart, st)
    ELSE LET mid == (lo + hi) \div 2
             first == CollectRange(c, nSelectionIntervalStart, st, lo, mid)
         IN IF first = first
            THEN CollectRange(c, nSelectionIntervalStart, first, mid + 1, hi)
            ELSE first

\* vSortedByTimestamp before the reverse and the sort, pindexPrev first
CollectCandidates(c, pindexPrev, nSelectionIntervalStart) ==
    CollectRange(c, nSelectionIntervalStart, [pindex |-> pindexPrev, v |-> <<>>],
                 1, pindexPrev).v

\* the selection hash of a candidate block; ssModifierPrev is the
\* serialized nStakeModifierPrev
SelectionHash(node, ssModifierPrev) ==
    LET h == Hash(<<node.hashProof>> \o ssModifierPrev) IN
    IF node.fProofOfStake THEN h \div Pow2(ShiftBits) ELSE h

\* a later candidate with an equal selection hash takes over
TakesOverOnTie(fSelected, hashSelection, hashBest) ==
    fSelected /\ hashSelection <= hashBest

\* whether a later candidate replaces the best one so far
TakesOver(fSelected, hashSelection, hashBest) ==
    fSelected /\ hashSelection < hashBest

\* one iteration of the loop of SelectBlockFromCandidates, on item k.  st
\* holds the loop's locals fSelected, hashBest and pindexSelected, whether
\* the loop was left (done) and whether it was left by return error (failed).
SelectStep(c, map, sorted, selected, stop, ssModifierPrev, st, k) ==
    IF st.done THEN st
    ELSE IF sorted[k][2] \notin DOMAIN map
    THEN [st EXCEPT !.done = TRUE, !.failed = TRUE]
    ELSE
      LET pindex == map[sorted[k][2]]
          hashSelection == SelectionHash(c[pindex], ssModifierPrev)
      IN
      IF st.fSelected /\ c[pindex].nTime > stop
      THEN [st EXCEPT !.done = TRUE]
      ELSE IF c[pindex].hashBlock \in selected
      THEN st
      ELSE IF TakesOver(st.fSelected, hashSelection, st.hashBest)
      THEN [st EXCEPT !.hashBest = hashSelection, !.pindexSelected = pindex]
      ELSE IF ~st.fSelected
      THEN [st EXCEPT !.fSelected = TRUE, !.hashBest = hashSelection,
                      !.pindexSelected = pindex]
      ELSE st

RECURSIVE SelectRange(_, _, _, _, _, _, _, _, _)
SelectRange(c, map, sorted, selected, stop, ssModifierPrev, st, lo, hi) ==
    IF lo > hi THEN st
    ELSE IF lo = hi THEN SelectStep(c, map, sorted, selected, stop, ssModifierPrev, st, lo)
    ELSE LET mid == (lo + hi) \div 2
             first == SelectRange(c, map, sorted, selected, stop, ssModifierPrev, st, lo, mid)
         IN IF first = first
            THEN SelectRange(c, map, sorted, selected, stop, ssModifierPrev, first, mid + 1, hi)
            ELSE first

\* SelectBlockFromCandidates: [ok, pindexSelected]
SelectBlockFromCandidates(c, map, sorted, selected, stop, ssModifierPrev) ==
    LET st == SelectRange(c, map, sorted, selected, stop, ssModifierPrev,
                          [done |-> FALSE, failed |-> FALSE, fSelected |-> FALSE,
                           hashBest |-> 0, pindexSelected |-> 0],
                          1, Len(sorted))
    IN [ok |-> ~st.failed /\ st.fSelected, pindexSelected |-> st.pindexSelected]

\* one round per candidate, however many
RoundCountUncapped(sorted) == Len(sorted)

\* min(64, (int)vSortedByTimestamp.size())
RoundCount(sorted) == Min(ModifierBits, Len(sorted))

\* nStakeModifierNew |= bit << nRound
SetEntropyBit(modNew, bit, nRound) ==
    IF bit = 1 THEN modNew \cup {nRound} ELSE modNew

\* a round that does not add the block it selected to mapSelectedBlocks
RoundStepNoInsert(c, map, sorted, ssModifierPrev, st, nRound) ==
    IF st.failed THEN st
    ELSE
      LET nStop == st.stop + GetStakeModifierSelectionIntervalSection(nRound)
          sel == SelectBlockFromCandidates(c, map, sorted, st.selected, nStop, ssModifierPrev)
      IN
      IF ~sel.ok
      THEN [st EXCEPT !.failed = TRUE, !.stop = nStop]
      ELSE [failed |-> FALSE, stop |-> nStop,
            selected |-> st.selected,
            modNew |-> SetEntropyBit(st.modNew, c[sel.pindexSelected].entropyBit,
                                     nRound),
            rounds |-> Append(st.rounds,
                              [stop |-> nStop, selectedBefore |-> st.selected,
                               pindex |-> sel.pindexSelected])]

\* one round of ComputeNextStakeModifier.  st holds nSelectionIntervalStop,
\* mapSelectedBlocks (its keys), nStakeModifierNew, whether a round failed,
\* and rounds: per round run, the stop time it used, the blocks selected
\* before it and the block it selected.
RoundStep(c, map, sorted, ssModifierPrev, st, nRound) ==
    IF st.failed THEN st
    ELSE
      LET nStop == st.stop + GetStakeModifierSelectionIntervalSection(nRound)
          sel == SelectBlockFromCandidates(c, map, sorted, st.selected, nStop, ssModifierPrev)
      IN
      IF ~sel.ok
      THEN [st EXCEPT !.failed = TRUE, !.stop = nStop]
      ELSE [failed |-> FALSE, stop |-> nStop,
            selected |-> st.selected \cup {c[sel.pindexSelected].hashBlock},
            modNew |-> SetEntropyBit(st.modNew, c[sel.pindexSelected].entropyBit,
                                     nRound),
            rounds |-> Append(st.rounds,
                              [stop |-> nStop, selectedBefore |-> st.selected,
                               pindex |-> sel.pindexSelected])]

RECURSIVE RoundRange(_, _, _, _, _, _, _)
RoundRange(c, map, sorted, ssModifierPrev, st, lo, hi) ==
    IF lo > hi THEN st
    ELSE IF lo = hi THEN RoundStep(c, map, sorted, ssModifierPrev, st, lo)
    ELSE LET mid == (lo + hi) \div 2
             first == RoundRange(c, map, sorted, ssModifierPrev, st, lo, mid)
         IN IF first = first
            THEN RoundRange(c, map, sorted, ssModifierPrev, first, mid + 1, hi)
            ELSE first

\* the last modifier is kept only in a strictly later epoch
ModifierStillCurrentStrict(nModifierTime, nPrevBlockTime) ==
    nModifierTime \div nModifierInterval > nPrevBlockTime \div nModifierInterval

\* the test that returns the last modifier unchanged
ModifierStillCurrent(nModifierTime, nPrevBlockTime) ==
    nModifierTime \div nModifierInterval >= nPrevBlockTime \div nModifierInterval

\* ComputeNextStakeModifier(pindexPrev, nStakeModifier, fGeneratedStakeModifier)
\* [ok, nStakeModifier, fGenerated] plus what generation went through:
\* start (nSelectionIntervalStart), sorted (vSortedByTimestamp), rounds.
ComputeNextStakeModifier(c, map, pindexPrev) ==
    IF pindexPrev = 0
    THEN [ok |-> TRUE, nStakeModifier |-> {}, fGenerated |-> TRUE,
          start |-> 0, sorted |-> <<>>, rounds |-> <<>>]
    ELSE
      LET last == GetLastStakeModifier(c, pindexPrev) IN
      IF ~last.ok
      THEN [ok |-> FALSE, nStakeModifier |-> {}, fGenerated |-> FALSE,
            start |-> 0, sorted |-> <<>>, rounds |-> <<>>]
      ELSE IF ModifierStillCurrent(last.nModifierTime, c[pindexPrev].nTime)
      THEN [ok |-> TRUE, nStakeModifier |-> last.nStakeModifier,
            fGenerated |-> FALSE,
            start |-> 0, sorted |-> <<>>, rounds |-> <<>>]
      ELSE
        LET nSelectionInterval == GetStakeModifierSelectionInterval
            nSelectionIntervalStart ==
                (c[pindexPrev].nTime \div nModifierInterval) * nModifierInterval
                    - nSelectionInterval
            sorted == Sort(Reverse(CollectCandidates(c, pindexPrev,
                                                     nSelectionIntervalStart)))
            st == RoundRange(c, map, sorted, SerializeModifier(last.nStakeModifier),
                             [failed |-> FALSE, stop |-> nSelectionIntervalStart,
                              selected |-> {}, modNew |-> {}, rounds |-> <<>>],
                             0, RoundCount(sorted) - 1)
        IN IF st.failed
           THEN [ok |-> FALSE, nStakeModifier |-> last.nStakeModifier,
                 fGenerated |-> FALSE, start |-> nSelectionIntervalStart,
                 sorted |-> sorted, rounds |-> st.rounds]
           ELSE [ok |-> TRUE, nStakeModifier |-> st.modNew, fGenerated |-> TRUE,
                 start |-> nSelectionIntervalStart, sorted |-> sorted,
                 rounds |-> st.rounds]

----------------------------------------------------------------------------
(* Kernel hash *)

\* SetCompact(nBits): a mantissa in the low four bits, scaled by a power of
\* four given by the size above them (a non-negative encoding)
ExpandCompact(nBits) ==
    LET nSize == nBits \div 16
        nWord == nBits % 16
    IN IF nSize <= 1 THEN nWord \div Pow2(2 * (1 - nSize))
       ELSE nWord * Pow2(2 * (nSize - 1))

GetWeight(nIntervalBeginning, nIntervalEnd) ==
    Min(nIntervalEnd - nIntervalBeginning - nStakeMinAge, nStakeMaxAge)

\* the loop body with the test at the best block made on the time of
\* pindexFrom
KernelModifierStepFromTime(c, pindexFrom, fPrintProofOfStake, nAdjustedTime, st) ==
    IF st.left # "no" THEN st
    ELSE IF ~(st.nStakeModifierTime
                < c[pindexFrom].nTime + GetStakeModifierSelectionInterval)
    THEN [st EXCEPT !.left = "found"]
    ELSE IF pnext(c, st.pindex) = 0
    THEN IF fPrintProofOfStake
            \/ c[pindexFrom].nTime + nStakeMinAge - GetStakeModifierSelectionInterval
                 > nAdjustedTime
         THEN [st EXCEPT !.left = "error"]
         ELSE [st EXCEPT !.left = "false"]
    ELSE LET pindex == pnext(c, st.pindex) IN
         IF c[pindex].fGenerated
         THEN [st EXCEPT !.pindex = pindex,
                         !.nStakeModifierHeight = c[pindex].nHeight,
                         !.nStakeModifierTime = c[pindex].nTime]
         ELSE [st EXCEPT !.pindex = pindex]

\* the loop body with the modifier time taken from every node walked
KernelModifierStepAnyNode(c, pindexFrom, fPrintProofOfStake, nAdjustedTime, st) ==
    IF st.left # "no" THEN st
    ELSE IF ~(st.nStakeModifierTime
                < c[pindexFrom].nTime + GetStakeModifierSelectionInterval)
    THEN [st EXCEPT !.left = "found"]
    ELSE IF pnext(c, st.pindex) = 0
    THEN IF fPrintProofOfStake
            \/ c[st.pindex].nTime + nStakeMinAge - GetStakeModifierSelectionInterval
                 > nAdjustedTime
         THEN [st EXCEPT !.left = "error"]
         ELSE [st EXCEPT !.left = "false"]
    ELSE LET pindex == pnext(c, st.pindex) IN
         [st EXCEPT !.pindex = pindex,
                    !.nStakeModifierHeight = c[pindex].nHeight,
                    !.nStakeModifierTime = c[pindex].nTime]

\* one iteration of the while loop of GetKernelStakeModifier.  st holds
\* pindex, nStakeModifierHeight, nStakeModifierTime, and how the function
\* was left, if it was: "error", "false", or "found" when the loop ended.
KernelModifierStep(c, pindexFrom, fPrintProofOfStake, nAdjustedTime, st) ==
    IF st.left # "no" THEN st
    ELSE IF ~(st.nStakeModifierTime
                < c[pindexFrom].nTime + GetStakeModifierSelectionInterval)
    THEN [st EXCEPT !.left = "found"]
    ELSE IF pnext(c, st.pindex) = 0
    THEN IF fPrintProofOfStake
            \/ c[st.pindex].nTime + nStakeMinAge - GetStakeModifierSelectionInterval
                 > nAdjustedTime
         THEN [st EXCEPT !.left = "error"]
         ELSE [st EXCEPT !.left = "false"]
    ELSE LET pindex == pnext(c, st.pindex) IN
         IF c[pindex].fGenerated
         THEN [st EXCEPT !.pindex = pindex,
                         !.nStakeModifierHeight = c[pindex].nHeight,
                         !.nStakeModifierTime = c[pindex].nTime]
         ELSE [st EXCEPT !.pindex = pindex]

RECURSIVE KernelModifierRange(_, _, _, _, _, _, _)
KernelModifierRange(c, pindexFrom, fPrintProofOfStake, nAdjustedTime, st, lo, hi) ==
    IF lo > hi THEN st
    ELSE IF lo = hi
    THEN KernelModifierStep(c, pindexFrom, fPrintProofOfStake, nAdjustedTime, st)
    ELSE LET mid == (lo + hi) \div 2
             first == KernelModifierRange(c, pindexFrom, fPrintProofOfStake,
                                          nAdjustedTime, st, lo, mid)
         IN IF first = first
            THEN KernelModifierRange(c, pindexFrom, fPrintProofOfStake,
                                     nAdjustedTime, first, mid + 1, hi)
            ELSE first

\* GetKernelStakeModifier: [ok, fError, nStakeModifier, nStakeModifierHeight,
\* nStakeModifierTime, pindex]; fError tells return error from return false
GetKernelStakeModifier(c, map, hashBlockFrom, fPrintProofOfStake, nAdjustedTime) ==
    IF hashBlockFrom \notin DOMAIN map
    THEN [ok |-> FALSE, fError |-> TRUE, nStakeModifier |-> {},
          nStakeModifierHeight |-> 0, nStakeModifierTime |-> 0, pindex |-> 0]
    ELSE
      LET pindexFrom == map[hashBlockFrom]
          st == KernelModifierRange(c, pindexFrom, fPrintProofOfStake, nAdjustedTime,
                    [pindex |-> pindexFrom,
                     nStakeModifierHeight |-> c[pindexFrom].nHeight,
                     nStakeModifierTime |-> c[pindexFrom].nTime, left |-> "no"],
                    1, Len(c) - pindexFrom + 2)
      IN [ok |-> st.left = "found", fError |-> st.left = "error",
          nStakeModifier |-> IF st.left = "found"
                             THEN c[st.pindex].nStakeModifier ELSE {},
          nStakeModifierHeight |-> st.nStakeModifierHeight,
          nStakeModifierTime |-> st.nStakeModifierTime, pindex |-> st.pindex]

\* the min age requirement of the kernel checks
MinAgeViolation(nTimeBlockFrom, nTimeTx) == nTimeBlockFrom + nStakeMinAge > nTimeTx

\* bnCoinDayWeight * bnTargetPerCoinDay in arith_uint256, which wraps
WeightedTargetV1(nBits, nValueIn, nTimeTxPrev, nTimeTx) ==
    LET bnCoinDayWeight ==
            ((nValueIn * GetWeight(nTimeTxPrev, nTimeTx)) \div COIN) \div SecondsPerDay
    IN (bnCoinDayWeight * ExpandCompact(nBits)) % HashSpace

\* CheckStakeKernelHashV1: [ok, version, err, hashProofOfStake,
\* targetProofOfStake]; hashProof0 and targetProof0 are the out-parameters'
\* values at the call, err the place the function was left at
CheckStakeKernelHashV1(c, map, nBits, blockFrom, nTxPrevOffset, txPrev, prevout, nTimeTx, hashProof0, targetProof0, fPrintProofOfStake, nAdjustedTime) ==
    IF nTimeTx < txPrev.nTime
    THEN [ok |-> FALSE, version |-> 1, err |-> "nTime violation",
          hashProofOfStake |-> hashProof0, targetProofOfStake |-> targetProof0]
    ELSE
      LET nTimeBlockFrom == c[blockFrom].nTime IN
      IF MinAgeViolation(nTimeBlockFrom, nTimeTx)
      THEN [ok |-> FALSE, version |-> 1, err |-> "min age violation",
            hashProofOfStake |-> hashProof0, targetProofOfStake |-> targetProof0]
      ELSE
        LET nValueIn == txPrev.vout[prevout.n]
            target == WeightedTargetV1(nBits, nValueIn, txPrev.nTime, nTimeTx)
            km == GetKernelStakeModifier(c, map, c[blockFrom].hashBlock,
                                         fPrintProofOfStake, nAdjustedTime)
            hash == Hash(SerializeModifier(km.nStakeModifier)
                         \o <<nTimeBlockFrom, nTxPrevOffset, txPrev.nTime,
                              prevout.n, nTimeTx>>)
        IN IF ~km.ok
           THEN [ok |-> FALSE, version |-> 1, err |-> "no modifier",
                 hashProofOfStake |-> hashProof0, targetProofOfStake |-> target]
           ELSE IF hash > target
           THEN [ok |-> FALSE, version |-> 1, err |-> "target",
                 hashProofOfStake |-> hash, targetProofOfStake |-> target]
           ELSE [ok |-> TRUE, version |-> 1, err |-> "none",
                 hashProofOfStake |-> hash, targetProofOfStake |-> target]

\* the weighted target cut to the width of a hash
WeightedTargetV2Wrapped(nBits, nValueIn) ==
    (ExpandCompact(nBits) * nValueIn) % HashSpace

\* bnTarget *= bnWeight in CBigNum, which does not wrap
WeightedTargetV2(nBits, nValueIn) == ExpandCompact(nBits) * nValueIn

\* the stake modifier the V2 hash is made with
KernelModifierV2(c, pindexPrev) == c[pindexPrev].nStakeModifier

\* CheckStakeKernelHashV2: as CheckStakeKernelHashV1
CheckStakeKernelHashV2(c, pindexPrev, nBits, nTimeBlockFrom, txPrev, prevout, nTimeTx, hashProof0, targetProof0, fPrintProofOfStake) ==
    IF nTimeTx < txPrev.nTime
    THEN [ok |-> FALSE, version |-> 2, err |-> "nTime violation",
          hashProofOfStake |-> hashProof0, targetProofOfStake |-> targetProof0]
    ELSE IF MinAgeViolation(nTimeBlockFrom, nTimeTx)
    THEN [ok |-> FALSE, version |-> 2, err |-> "min age violation",
          hashProofOfStake |-> hashProof0, targetProofOfStake |-> targetProof0]
    ELSE
      LET bnTarget == WeightedTargetV2(nBits, txPrev.vout[prevout.n])
          hash == Hash(SerializeModifier(KernelModifierV2(c, pindexPrev))
                       \o <<nTimeBlockFrom, txPrev.nTime, prevout.hash,
                            prevout.n, nTimeTx>>)
      IN IF hash > bnTarget
         THEN [ok |-> FALSE, version |-> 2, err |-> "target",
               hashProofOfStake |-> hash, targetProofOfStake |-> targetProof0]
         ELSE [ok |-> TRUE, version |-> 2, err |-> "none",
               hashProofOfStake |-> hash, targetProofOfStake |-> targetProof0]

\* the second protocol from the switch height itself
IsProtocolV2AtSwitch(nHeightPrev) == nHeightPrev + 1 >= nProtocolV2Height

\* pindexPrev->nHeight + 1 > consensusParams.nProtocolV2Height
IsProtocolV2(nHeightPrev) == nHeightPrev + 1 > nProtocolV2Height

CheckStakeKernelHash(c, map, pindexPrev, nBits, blockFrom, nTxPrevOffset, txPrev, prevout, nTimeTx, hashProof0, targetProof0, fPrintProofOfStake, nAdjustedTime) ==
    IF IsProtocolV2(c[pindexPrev].nHeight)
    THEN CheckStakeKernelHashV2(c, pindexPrev, nBits, c[blockFrom].nTime, txPrev,
                                prevout, nTimeTx, hashProof0, targetProof0,
                                fPrintProofOfStake)
    ELSE CheckStakeKernelHashV1(c, map, nBits, blockFrom, nTxPrevOffset, txPrev,
                                prevout, nTimeTx, hashProof0, targetProof0,
                                fPrintProofOfStake, nAdjustedTime)

\* a & b on non-negative integers
RECURSIVE BitAnd(_, _)
BitAnd(a, b) ==
    IF a = 0 \/ b = 0 THEN 0
    ELSE (a % 2) * (b % 2) + 2 * BitAnd(a \div 2, b \div 2)

\* the mask applied from the switch height itself
CheckCoinStakeTimestampAtSwitch(nHeight, nTimeBlock, nTimeTx) ==
    IF nHeight >= nProtocolV2Height
    THEN nTimeBlock = nTimeTx /\ BitAnd(nTimeTx, STAKE_TIMESTAMP_MASK) = 0
    ELSE nTimeBlock = nTimeTx

CheckCoinStakeTimestamp(nHeight, nTimeBlock, nTimeTx) ==
    IF nHeight > nProtocolV2Height
    THEN nTimeBlock = nTimeTx /\ BitAnd(nTimeTx, STAKE_TIMESTAMP_MASK) = 0
    ELSE nTimeBlock = nTimeTx

----------------------------------------------------------------------------
(* Validator entry points.  The stores the validators read are one record: *)
(* coin is what view.GetCoin finds for the prevout (fExists, nHeight,      *)
(* fSpent), fBlockReadable whether ReadBlockFromDisk succeeds,             *)
(* fTxFound and txPrev what GetTransaction finds, fSigValid what           *)
(* VerifySignature answers, fDebug the debug flag and nAdjustedTime the    *)
(* clock.  A transaction's vout is a function from output number to value. *)

\* CBlockIndex::GetAncestor
GetAncestor(c, pindex, height) ==
    IF height > c[pindex].nHeight \/ height < 0 THEN 0 ELSE height + 1

\* pblocktree->ReadTxOffsetIndex(nHeight, nTxOffset): the offset the block
\* tree database holds for a height
ReadTxOffsetIndex(nHeight) == (3 * nHeight + 1) % 4

\* the level of state.DoS of each rejection of CheckProofOfStake
NoPrevoutDoS == 100

NoAncestorDoS == 100

BlockNotFoundDoS == 100

PrevoutNotInChainDoS == 1

BadSignatureDoS == 100

\* kernel is what CheckStakeKernelHash returned
KernelFailedDoS(kernel) == 1

NoKernel == [ok |-> FALSE, version |-> 0, err |-> "not run"]

\* what CheckProofOfStake leaves when it rejects before the kernel check
Rejected(checks, nDoS, hashProof0, targetProof0) ==
    [ok |-> FALSE, nDoS |-> nDoS, checks |-> checks, kernel |-> NoKernel,
     hashProofOfStake |-> hashProof0, targetProofOfStake |-> targetProof0]

\* the signature verified before the staked transaction is fetched
CheckProofOfStakeSignatureFirst(c, map, pindexPrev, tx, nBits, hashProof0, targetProof0, store) ==
    IF ~tx.fCoinStake
    THEN Rejected(<<"coinstake">>, 0, hashProof0, targetProof0)
    ELSE IF ~store.coin.fExists
    THEN Rejected(<<"coinstake", "coin">>, NoPrevoutDoS, hashProof0, targetProof0)
    ELSE
      LET blockFrom == GetAncestor(c, pindexPrev, store.coin.nHeight) IN
      IF blockFrom = 0
      THEN Rejected(<<"coinstake", "coin", "ancestor">>, NoAncestorDoS,
                    hashProof0, targetProof0)
      ELSE IF ~store.fBlockReadable
      THEN Rejected(<<"coinstake", "coin", "ancestor", "block">>, BlockNotFoundDoS,
                    hashProof0, targetProof0)
      ELSE IF ~store.fSigValid
      THEN Rejected(<<"coinstake", "coin", "ancestor", "block", "signature">>,
                    BadSignatureDoS, hashProof0, targetProof0)
      ELSE IF ~store.fTxFound
      THEN Rejected(<<"coinstake", "coin", "ancestor", "block", "signature",
                      "txPrev">>, PrevoutNotInChainDoS, hashProof0, targetProof0)
      ELSE
        LET nTxOffset == ReadTxOffsetIndex(c[pindexPrev].nHeight)
            kernel == CheckStakeKernelHash(c, map, pindexPrev, nBits, blockFrom,
                          nTxOffset, store.txPrev, tx.prevout, tx.nTime,
                          hashProof0, targetProof0, store.fDebug,
                          store.nAdjustedTime)
        IN [ok |-> kernel.ok,
            nDoS |-> IF kernel.ok THEN 0 ELSE KernelFailedDoS(kernel),
            checks |-> <<"coinstake", "coin", "ancestor", "block", "signature",
                         "txPrev", "kernel">>,
            kernel |-> kernel,
            hashProofOfStake |-> kernel.hashProofOfStake,
            targetProofOfStake |-> kernel.targetProofOfStake]

\* CheckProofOfStake: [ok, nDoS, checks, kernel, hashProofOfStake,
\* targetProofOfStake]; nDoS is the score of state (0: DoS was not called),
\* checks the checks evaluated, in order
CheckProofOfStake(c, map, pindexPrev, tx, nBits, hashProof0, targetProof0, store) ==
    IF ~tx.fCoinStake
    THEN Rejected(<<"coinstake">>, 0, hashProof0, targetProof0)
    ELSE IF ~store.coin.fExists
    THEN Rejected(<<"coinstake", "coin">>, NoPrevoutDoS, hashProof0, targetProof0)
    ELSE
      LET blockFrom == GetAncestor(c, pindexPrev, store.coin.nHeight) IN
      IF blockFrom = 0
      THEN Rejected(<<"coinstake", "coin", "ancestor">>, NoAncestorDoS,
                    hashProof0, targetProof0)
      ELSE IF ~store.fBlockReadable
      THEN Rejected(<<"coinstake", "coin", "ancestor", "block">>, BlockNotFoundDoS,
                    hashProof0, targetProof0)
      ELSE IF ~store.fTxFound
      THEN Rejected(<<"coinstake", "coin", "ancestor", "block", "txPrev">>,
                    PrevoutNotInChainDoS, hashProof0, targetProof0)
      ELSE IF ~store.fSigValid
      THEN Rejected(<<"coinstake", "coin", "ancestor", "block", "txPrev",
                      "signature">>, BadSignatureDoS, hashProof0, targetProof0)
      ELSE
        LET nTxOffset == ReadTxOffsetIndex(c[pindexPrev].nHeight)
            kernel == CheckStakeKernelHash(c, map, pindexPrev, nBits, blockFrom,
                          nTxOffset, store.txPrev, tx.prevout, tx.nTime,
                          hashProof0, targetProof0, store.fDebug,
                          store.nAdjustedTime)
        IN [ok |-> kernel.ok,
            nDoS |-> IF kernel.ok THEN 0 ELSE KernelFailedDoS(kernel),
            checks |-> <<"coinstake", "coin", "ancestor", "block", "txPrev",
                         "signature", "kernel">>,
            kernel |-> kernel,
            hashProofOfStake |-> kernel.hashProofOfStake,
            targetProofOfStake |-> kernel.targetProofOfStake]

\* a coin taken for immature one block longer
IsImmatureOneMore(nHeightPrev, nCoinHeight) ==
    nHeightPrev + 1 - nCoinHeight <= nCoinbaseMaturity

\* the maturity test of CheckKernel
IsImmature(nHeightPrev, nCoinHeight) ==
    nHeightPrev + 1 - nCoinHeight < nCoinbaseMaturity

\* CheckKernel: [ok, kernel]
CheckKernel(c, map, pindexPrev, nBits, prevout, store, txTime) ==
    IF ~store.coin.fExists THEN [ok |-> FALSE, kernel |-> NoKernel]
    ELSE IF IsImmature(c[pindexPrev].nHeight, store.coin.nHeight)
    THEN [ok |-> FALSE, kernel |-> NoKernel]
    ELSE
      LET blockFrom == GetAncestor(c, pindexPrev, store.coin.nHeight) IN
      IF blockFrom = 0 THEN [ok |-> FALSE, kernel |-> NoKernel]
      ELSE IF store.coin.fSpent THEN [ok |-> FALSE, kernel |-> NoKernel]
      ELSE IF ~store.fBlockReadable THEN [ok |-> FALSE, kernel |-> NoKernel]
      ELSE IF ~store.fTxFound THEN [ok |-> FALSE, kernel |-> NoKernel]
      ELSE
        LET nTxOffset == ReadTxOffsetIndex(c[pindexPrev].nHeight)
            kernel == CheckStakeKernelHash(c, map, pindexPrev, nBits, blockFrom,
                          nTxOffset, store.txPrev, prevout, txTime, 0, 0,
                          FALSE, store.nAdjustedTime)
        IN [ok |-> kernel.ok, kernel |-> kernel]

----------------------------------------------------------------------------
(* The chain the engine runs on *)

\* the hash of the block of height h with low bit `bit`
BlockHash(h, bit) == ((2 * h + bit) * 7) % HashSpace

\* the block index node a connected block gets; m is the engine's output for
\* its parent, the tip of c
NewBlockIndex(c, m, nTime, bit, fProofOfStake) ==
    LET h == BlockHash(Len(c), bit) IN
    [nHeight |-> Len(c), nTime |-> nTime, hashBlock |-> h,
     hashProof |-> IF fProofOfStake THEN Hash(<<h, nTime>>) ELSE h,
     nStakeModifier |-> m.nStakeModifier, fGenerated |-> m.fGenerated,
     entropyBit |-> h % 2, fProofOfStake |-> fProofOfStake]

GenesisChain ==
    <<NewBlockIndex(<<>>, ComputeNextStakeModifier(<<>>, <<>>, 0), 0, 0, FALSE)>>

\* c with one more block: block times one and two seconds apart
LongChainStep(c) ==
    LET h == Len(c) IN
    Append(c, NewBlockIndex(c, ComputeNextStakeModifier(c, IndexOf(c), h),
                            c[h].nTime + 1 + (h % 2), (h \div 3) % 2, h % 3 # 0))

RECURSIVE LongChainRange(_, _, _)
LongChainRange(c, lo, hi) ==
    IF lo > hi THEN c
    ELSE IF lo = hi THEN LongChainStep(c)
    ELSE LET mid == (lo + hi) \div 2
             first == LongChainRange(c, lo, mid)
         IN IF first = first
            THEN LongChainRange(first, mid + 1, hi)
            ELSE first

\* a chain of LongLen blocks
LongChain == LongChainRange(GenesisChain, 2, LongLen)

\* the steps of block time from a block to the next: back by a second,
\* forward by a second, forward past a whole selection interval
TimeSteps == {-1, 1, GetStakeModifierSelectionInterval + 1}

NoCall == [op |-> "none"]

InitModifier ==
    /\ chain \in {GenesisChain, LongChain}
    /\ mapBlockIndex = IndexOf(chain)
    /\ ret = NoCall

\* a block is connected on the tip: of a chain grown from the genesis block
\* while it is shorter than MaxChain, and once on the long chain
ConnectBlock ==
    /\ \/ Len(chain) < MaxChain
       \/ Len(chain) = LongLen
    /\ LET m == ComputeNextStakeModifier(chain, mapBlockIndex, Len(chain)) IN
       /\ m.ok
       /\ \E dt \in TimeSteps, bit \in 0..1, fProofOfStake \in BOOLEAN :
            LET pindexNew == NewBlockIndex(chain, m, chain[Len(chain)].nTime + dt,
                                           bit, fProofOfStake)
            IN /\ pindexNew.nTime >= 0
               /\ chain' = Append(chain, pindexNew)
               /\ mapBlockIndex' =
                      [h \in DOMAIN mapBlockIndex \cup {pindexNew.hashBlock} |->
                          IF h = pindexNew.hashBlock THEN Len(chain) + 1
                          ELSE mapBlockIndex[h]]
    /\ ret' = NoCall

\* ComputeNextStakeModifier is called on null or on the tip (a call on an
\* earlier node is the call on the tip of the chain that ended there)
CallComputeNextStakeModifier ==
    /\ \E p \in {0, Len(chain)} :
          ret' = [op |-> "ComputeNextStakeModifier", pindexPrev |-> p,
                  out |-> ComputeNextStakeModifier(chain, mapBlockIndex, p)]
    /\ UNCHANGED <<chain, mapBlockIndex>>

NextModifier == ConnectBlock \/ CallComputeNextStakeModifier

SpecModifier == InitModifier /\ [][NextModifier]_vars

----------------------------------------------------------------------------
(* The validators and the kernel checks on a chain that spans the protocol *)
(* switch.  A call records its arguments and what it returned in ret, and  *)
(* the caller takes the result before the next call.                       *)

\* time, entropy bit and kind of the blocks after genesis: two old blocks,
\* then blocks more than a selection interval later
KernelChainBlocks ==
    LET T == GetStakeModifierSelectionInterval IN
    << <<1, 1, TRUE>>, <<T + 2, 0, TRUE>>, <<T + 3, 1, TRUE>>,
       <<T + 4, 1, TRUE>>, <<T + 5, 0, FALSE>>, <<T + 6, 1, TRUE>> >>

RECURSIVE ChainOf(_, _)
ChainOf(c, blocks) ==
    IF blocks = <<>> THEN c
    ELSE LET b == Head(blocks)
             m == ComputeNextStakeModifier(c, IndexOf(c), Len(c))
         IN ChainOf(Append(c, NewBlockIndex(c, m, b[1], b[2], b[3])), Tail(blocks))

KernelChain == ChainOf(GenesisChain, KernelChainBlocks)

\* the compact targets offered
CompactTargets == {2, 25, 30, 44}

\* the coinstake times offered: around the min age of the old blocks, and
\* at the min age of the later ones
StakeTimes ==
    {nStakeMinAge - 1, nStakeMinAge, nStakeMinAge + 1,
     GetStakeModifierSelectionInterval + 2 + nStakeMinAge,
     GetStakeModifierSelectionInterval + 3 + nStakeMinAge}

\* the clock: before the chain's blocks, and after them
AdjustedTimes == {0, 2 * GetStakeModifierSelectionInterval}

\* the heights a coin may claim: old blocks, blocks around the previous
\* block, and a height above the chain
CoinHeights == {0, 1, 2, nProtocolV2Height - 1, Len(KernelChain)}

\* the transactions GetTransaction may find for a coin of height nHeight: a
\* transaction is not later than the block that holds it
TxPrevs(c, nHeight, values) ==
    LET nTimeBlock == IF nHeight + 1 \in DOMAIN c THEN c[nHeight + 1].nTime ELSE 0
    IN {[nTime |-> t, vout |-> [n \in {0, 1} |-> v + 2 * n]] :
          t \in {nTimeBlock, nTimeBlock - 1} \cap Nat, v \in values}

Stores(c) ==
    UNION {
      {[coin |-> [fExists |-> e, nHeight |-> h, fSpent |-> sp],
        fBlockReadable |-> r, fTxFound |-> f, txPrev |-> txPrev,
        fSigValid |-> sig, fDebug |-> d, nAdjustedTime |-> now] :
          e \in BOOLEAN, sp \in BOOLEAN, r \in BOOLEAN, f \in BOOLEAN,
          sig \in BOOLEAN, d \in BOOLEAN, now \in AdjustedTimes,
          txPrev \in TxPrevs(c, h, {4})} :
      h \in CoinHeights}

InitKernel ==
    /\ chain = KernelChain
    /\ mapBlockIndex = IndexOf(chain)
    /\ ret = NoCall

\* the caller takes the result
Return ==
    /\ ret # NoCall
    /\ ret' = NoCall
    /\ UNCHANGED <<chain, mapBlockIndex>>

\* the blocks validated: the last of the first protocol and the first of
\* the second
PrevChoices == {nProtocolV2Height, nProtocolV2Height + 1}

CallCheckProofOfStake ==
    /\ ret = NoCall
    /\ \E pindexPrev \in PrevChoices \cap DOMAIN chain, store \in Stores(chain),
          fCoinStake \in BOOLEAN, nTime \in StakeTimes,
          nBits \in {25, 44}, targetProof0 \in {0, 1} :
          LET tx == [fCoinStake |-> fCoinStake,
                     prevout |-> [hash |-> 1, n |-> 0], nTime |-> nTime]
          IN /\ ~store.coin.fSpent
             /\ ret' = [op |-> "CheckProofOfStake", pindexPrev |-> pindexPrev,
                        tx |-> tx, nBits |-> nBits, hashProof0 |-> 0,
                        targetProof0 |-> targetProof0, store |-> store,
                        out |-> CheckProofOfStake(chain, mapBlockIndex, pindexPrev,
                                    tx, nBits, 0, targetProof0, store)]
    /\ UNCHANGED <<chain, mapBlockIndex>>

CallCheckKernel ==
    /\ ret = NoCall
    /\ \E pindexPrev \in PrevChoices \cap DOMAIN chain, store \in Stores(chain),
          txTime \in StakeTimes, nBits \in {25, 44} :
          LET prevout == [hash |-> 1, n |-> 0]
          IN ret' = [op |-> "CheckKernel", pindexPrev |-> pindexPrev,
                     nBits |-> nBits, prevout |-> prevout, store |-> store,
                     txTime |-> txTime,
                     out |-> CheckKernel(chain, mapBlockIndex, pindexPrev, nBits,
                                         prevout, store, txTime)]
    /\ UNCHANGED <<chain, mapBlockIndex>>

Next == CallCheckProofOfStake \/ CallCheckKernel \/ Return

Spec == InitKernel /\ [][Next]_vars

\* the times offered to CheckCoinStakeTimestamp: around the mask
TimestampValues ==
    {0, 1, STAKE_TIMESTAMP_MASK, STAKE_TIMESTAMP_MASK + 1,
     STAKE_TIMESTAMP_MASK + 2, 2 * (STAKE_TIMESTAMP_MASK + 1)}

CallCheckStakeKernelHash ==
    /\ ret = NoCall
    /\ \E pindexPrev \in DOMAIN chain \ {1}, blockFrom \in {1, 2, 3},
          nBits \in CompactTargets, nTimeTx \in StakeTimes,
          hash \in {1, 2}, n \in {0, 1}, fPrintProofOfStake \in BOOLEAN :
          \E txPrev \in TxPrevs(chain, chain[blockFrom].nHeight, {2, 4}) :
            LET prevout == [hash |-> hash, n |-> n]
                nTxPrevOffset == ReadTxOffsetIndex(chain[pindexPrev].nHeight)
            IN /\ blockFrom <= pindexPrev
               /\ ret' = [op |-> "CheckStakeKernelHash", pindexPrev |-> pindexPrev,
                          nBits |-> nBits, blockFrom |-> blockFrom,
                          nTxPrevOffset |-> nTxPrevOffset, txPrev |-> txPrev,
                          prevout |-> prevout, nTimeTx |-> nTimeTx,
                          fPrintProofOfStake |-> fPrintProofOfStake,
                          out |-> CheckStakeKernelHash(chain, mapBlockIndex,
                                      pindexPrev, nBits, blockFrom, nTxPrevOffset,
                                      txPrev, prevout, nTimeTx, 0, 0,
                                      fPrintProofOfStake, 0)]
    /\ UNCHANGED <<chain, mapBlockIndex>>

CallCheckCoinStakeTimestamp ==
    /\ ret = NoCall
    /\ \E nHeight \in 0..(nProtocolV2Height + 2),
          nTimeBlock \in TimestampValues, nTimeTx \in TimestampValues :
          ret' = [op |-> "CheckCoinStakeTimestamp", nHeight |-> nHeight,
                  nTimeBlock |-> nTimeBlock, nTimeTx |-> nTimeTx,
                  out |-> CheckCoinStakeTimestamp(nHeight, nTimeBlock, nTimeTx)]
    /\ UNCHANGED <<chain, mapBlockIndex>>

NextKernel == CallCheckStakeKernelHash \/ CallCheckCoinStakeTimestamp \/ Return

SpecKernel == InitKernel /\ [][NextKernel]_vars

----------------------------------------------------------------------------
(* GetKernelStakeModifier on chains of every shape of block times *)

\* the block times that a sequence of time steps gives, after genesis at 0
RECURSIVE WalkTimes(_, _)
WalkTimes(nTime, steps) ==
    IF steps = <<>> THEN <<>>
    ELSE <<nTime + Head(steps)>> \o WalkTimes(nTime + Head(steps), Tail(steps))

\* the blocks after genesis of the chains walked: every sequence of time
\* steps that keeps the block times non-negative, entropy bits alternating
WalkBlockLists ==
    {[k \in 1..WalkLen |-> <<WalkTimes(0, steps)[k], k % 2, TRUE>>] :
        steps \in {st \in [1..WalkLen -> TimeSteps] :
                      \A k \in 1..WalkLen : WalkTimes(0, st)[k] >= 0}}

WalkChains == {ChainOf(GenesisChain, blocks) : blocks \in WalkBlockLists}

InitWalk ==
    /\ chain \in WalkChains
    /\ mapBlockIndex = IndexOf(chain)
    /\ ret = NoCall

\* the clock at and just before the time that block time nTime sets for
\* the hard error at the best block, and the clock at 0
ClockTimes(nTime) ==
    {0} \cup ({nTime + nStakeMinAge - GetStakeModifierSelectionInterval + d :
                 d \in {-1, 0}} \cap Nat)

\* a block hash that is not indexed
UnknownHash == 1

\* the clocks offered for a call: around the hard error time of the best
\* block, and around that of the block the walk starts from
WalkClocks(c, map, hashBlockFrom) ==
    ClockTimes(c[Len(c)].nTime)
        \cup (IF hashBlockFrom \in DOMAIN map
              THEN ClockTimes(c[map[hashBlockFrom]].nTime) ELSE {})

CallGetKernelStakeModifier ==
    /\ ret = NoCall
    /\ \E hashBlockFrom \in DOMAIN mapBlockIndex \cup {UnknownHash},
          fPrintProofOfStake \in BOOLEAN :
          \E nAdjustedTime \in WalkClocks(chain, mapBlockIndex, hashBlockFrom) :
            ret' = [op |-> "GetKernelStakeModifier",
                    hashBlockFrom |-> hashBlockFrom,
                    fPrintProofOfStake |-> fPrintProofOfStake,
                    nAdjustedTime |-> nAdjustedTime,
                    out |-> GetKernelStakeModifier(chain, mapBlockIndex,
                                hashBlockFrom, fPrintProofOfStake, nAdjustedTime)]
    /\ UNCHANGED <<chain, mapBlockIndex>>

NextWalk == CallGetKernelStakeModifier \/ Return

SpecWalk == InitWalk /\ [][NextWalk]_vars

----------------------------------------------------------------------------
(* Properties of the stake modifier engine *)

\* the last call was ComputeNextStakeModifier on a non-null node
EngineCalled == ret.op = "ComputeNextStakeModifier" /\ ret.pindexPrev # 0

\* the nearest node with fGenerated, pindex included, following pprev
HasGenerated(pindex) == \E i \in 1..pindex : chain[i].fGenerated

NearestGenerated(pindex) ==
    CHOOSE i \in 1..pindex :
        chain[i].fGenerated /\ \A j \in (i + 1)..pindex : ~chain[j].fGenerated

\* T_mod / modifier_interval >= prev.block_time / modifier_interval
SameEpoch(pindex) ==
    chain[NearestGenerated(pindex)].nTime \div nModifierInterval
        >= chain[pindex].nTime \div nModifierInterval

\* C1: ComputeNextStakeModifier(null) returns (0, true); on a node whose
\* nearest generated ancestor has modifier M and time T_mod it returns
\* (M, false) exactly when T_mod / interval >= prev.block_time / interval,
\* and a generated modifier in every other case.
C1_NextModifierContract ==
    ret.op = "ComputeNextStakeModifier" =>
        LET p == ret.pindexPrev
            o == ret.out
        IN /\ p = 0 => (o.ok /\ o.nStakeModifier = {} /\ o.fGenerated)
           /\ (p # 0 /\ HasGenerated(p)) =>
                LET M == chain[NearestGenerated(p)].nStakeModifier
                    returnsLast == o.ok /\ o.nStakeModifier = M /\ ~o.fGenerated
                IN /\ returnsLast <=> SameEpoch(p)
                   /\ ~SameEpoch(p) => (o.ok /\ o.fGenerated)

\* the engine returned the last modifier found by walking back from prev,
\* whose epoch is strictly later than prev's
C1_Witness ==
    /\ EngineCalled
    /\ NearestGenerated(ret.pindexPrev) < ret.pindexPrev
    /\ chain[NearestGenerated(ret.pindexPrev)].nTime \div nModifierInterval
         > chain[ret.pindexPrev].nTime \div nModifierInterval
    /\ ~ret.out.fGenerated
    /\ ret.out.nStakeModifier # {}

\* the selection hash as the specification states it
SpecSelectionHash(node, M) ==
    LET h == Hash(<<node.hashProof>> \o SerializeModifier(M)) IN
    IF node.fProofOfStake THEN h \div Pow2(ShiftBits) ELSE h

\* the candidates (places in the sorted list) not selected before round rd
Available(sorted, rd) ==
    {k \in 1..Len(sorted) : sorted[k][2] \notin rd.selectedBefore}

\* those of them with block_time <= selection_stop
Eligible(sorted, rd) == {k \in Available(sorted, rd) : sorted[k][1] <= rd.stop}

\* the place in S with the smallest selection hash, the earliest on a tie
BestOf(S, sh) ==
    CHOOSE k \in S : \A j \in S : sh[k] < sh[j] \/ (sh[k] = sh[j] /\ k <= j)

FirstOf(S) == CHOOSE k \in S : \A j \in S : k <= j

SpecSection(n) ==
    (nModifierInterval * 63) \div (63 + (63 - n) * (MODIFIER_INTERVAL_RATIO - 1))

RECURSIVE SpecSectionsTo(_)
SpecSectionsTo(r) == IF r < 0 THEN 0 ELSE SpecSectionsTo(r - 1) + SpecSection(r)

\* C10: a modifier generated from n candidates takes min(64, n) rounds,
\* round r stops at selection_start + section(0) + ... + section(r), bit r
\* is the entropy bit of the block selected in round r, and every bit from
\* min(64, n) on is 0.
C10_ModifierBits ==
    (EngineCalled /\ HasGenerated(ret.pindexPrev) /\ ~SameEpoch(ret.pindexPrev)) =>
        LET o == ret.out
            R == Min(64, Len(o.sorted))
            start == (chain[ret.pindexPrev].nTime \div nModifierInterval)
                         * nModifierInterval - SpecSectionsTo(63)
        IN /\ o.ok /\ o.fGenerated
           /\ Len(o.rounds) = R
           /\ \A r \in 0..(R - 1) :
                /\ o.rounds[r + 1].stop = start + SpecSectionsTo(r)
                /\ (r \in o.nStakeModifier)
                     <=> (chain[o.rounds[r + 1].pindex].entropyBit = 1)
           /\ \A b \in o.nStakeModifier : b < R

\* a modifier was generated from more than 64 candidates, with bits of both
\* values
C10_Witness ==
    /\ EngineCalled
    /\ ret.out.fGenerated
    /\ Len(ret.out.sorted) > 64
    /\ Len(ret.out.sorted) < ret.pindexPrev
    /\ \E b \in 0..63 : b \in ret.out.nStakeModifier
    /\ \E b \in 0..63 : b \notin ret.out.nStakeModifier

\* C13: when ComputeNextStakeModifier generates, the candidate list is not
\* empty and holds prev, no round fails to select, each of the min(64, n)
\* rounds selects a candidate, and no block is selected in two rounds.
C13_RoundsSelectDistinct ==
    (EngineCalled /\ HasGenerated(ret.pindexPrev) /\ ~SameEpoch(ret.pindexPrev)) =>
        LET o == ret.out
            p == ret.pindexPrev
        IN /\ o.sorted # <<>>
           /\ \E k \in 1..Len(o.sorted) :
                 o.sorted[k] = <<chain[p].nTime, chain[p].hashBlock>>
           /\ o.ok
           /\ Len(o.rounds) = Min(64, Len(o.sorted))
           /\ \A r \in 1..Len(o.rounds) :
                 \E k \in 1..Len(o.sorted) :
                     o.sorted[k][2] = chain[o.rounds[r].pindex].hashBlock
           /\ \A r1, r2 \in 1..Len(o.rounds) :
                 r1 # r2 => o.rounds[r1].pindex # o.rounds[r2].pindex

\* a modifier generated on a short chain whose block times go back, every
\* block of it a candidate, with a round that had no candidate within its
\* stop time
C13_Witness ==
    /\ EngineCalled
    /\ ret.out.fGenerated
    /\ Len(ret.out.sorted) = ret.pindexPrev
    /\ Len(ret.out.rounds) >= 3
    /\ Len(chain) <= MaxChain
    /\ \E i \in 1..(ret.pindexPrev - 1) : chain[i + 1].nTime < chain[i].nTime
    /\ \E r \in 2..Len(ret.out.rounds) :
          \A k \in 1..Len(ret.out.sorted) :
              ret.out.sorted[k][2] \notin ret.out.rounds[r].selectedBefore
                  => ret.out.sorted[k][1] > ret.out.rounds[r].stop

\* C14: on a chain whose nodes carry the engine's output for their parents,
\* the engine applied to a node that generated a modifier returns that
\* node's modifier, not generated; so no two consecutive nodes generate,
\* and the modifier differs from the parent's only at nodes that generate.
C14_NoConsecutiveGeneration ==
    /\ \A b \in DOMAIN chain :
          chain[b].fGenerated =>
              LET o == ComputeNextStakeModifier(chain, mapBlockIndex, b) IN
              /\ o.ok
              /\ o.nStakeModifier = chain[b].nStakeModifier
              /\ ~o.fGenerated
    /\ \A b \in 1..(Len(chain) - 1) :
          ~(chain[b].fGenerated /\ chain[b + 1].fGenerated)
    /\ \A b \in 2..Len(chain) :
          chain[b].nStakeModifier # chain[b - 1].nStakeModifier
              => chain[b].fGenerated

\* a short chain whose block times go back, with a node after genesis that
\* generated another modifier than its parent's and has a child
C14_Witness ==
    /\ Len(chain) <= MaxChain
    /\ \E b \in 2..(Len(chain) - 1) :
          /\ chain[b].fGenerated
          /\ chain[b].nStakeModifier # chain[b - 1].nStakeModifier
          /\ chain[b + 1].nTime < chain[b].nTime
          /\ chain[b + 1].nTime \div nModifierInterval
               < chain[b].nTime \div nModifierInterval

----------------------------------------------------------------------------
(* Properties of the validators *)

CalledCheckProofOfStake == ret.op = "CheckProofOfStake"

\* the block the staked coin claims to be from, 0 if it is not on the chain
\* of the previous block
RetBlockFrom ==
    IF ret.store.coin.nHeight \in 0..chain[ret.pindexPrev].nHeight
    THEN ret.store.coin.nHeight + 1 ELSE 0

\* the target the kernel check compares the proof against: per coin day
\* weight and wrapped to the hash width in the first protocol, per value and
\* not wrapped in the second
SpecWeightedTarget(version, nBits, nValueIn, nTimeTxPrev, nTimeTx) ==
    IF version = 1
    THEN ((((nValueIn * Min(nTimeTx - nTimeTxPrev - nStakeMinAge, nStakeMaxAge))
             \div COIN) \div SecondsPerDay) * ExpandCompact(nBits)) % HashSpace
    ELSE ExpandCompact(nBits) * nValueIn

\* C2 (as the specification states it): when CheckProofOfStake succeeds, the
\* returned hash_proof is the kernel hash that was computed and the returned
\* target_proof is the weighted target it was compared against, under both
\* protocols.  The second protocol never writes target_proof.
C2_ProofAndTargetReturned ==
    (CalledCheckProofOfStake /\ ret.out.ok) =>
        /\ ret.out.hashProofOfStake = ret.out.kernel.hashProofOfStake
        /\ ret.out.hashProofOfStake
             <= SpecWeightedTarget(ret.out.kernel.version, ret.nBits,
                    ret.store.txPrev.vout[ret.tx.prevout.n],
                    ret.store.txPrev.nTime, ret.tx.nTime)
        /\ ret.out.targetProofOfStake
             = SpecWeightedTarget(ret.out.kernel.version, ret.nBits,
                    ret.store.txPrev.vout[ret.tx.prevout.n],
                    ret.store.txPrev.nTime, ret.tx.nTime)

\* C3 (as the specification states it): a rejection of CheckProofOfStake for
\* a preflight violation of the kernel check (time of the coinstake before
\* that of the staked transaction, or min age not reached) is ban-worthy,
\* and a rejection for a proof above the target is a soft fail with score 1.
\* Both are reported with score 1.
C3_PreflightBanWorthy ==
    CalledCheckProofOfStake =>
        /\ ret.out.kernel.err \in {"nTime violation", "min age violation"}
             => ret.out.nDoS = 100
        /\ ret.out.kernel.err = "target" => ret.out.nDoS = 1

\* the checks of CheckProofOfStake in their order, and the score of the
\* rejection by each
SpecCheckOrder ==
    <<"coinstake", "coin", "ancestor", "block", "txPrev", "signature", "kernel">>

SpecCheckScore == <<0, 100, 100, 100, 1, 100, 1>>

\* whether the k-th check passes on the arguments and stores of the call
SpecCheckPasses(k) ==
    CASE k = 1 -> ret.tx.fCoinStake
      [] k = 2 -> ret.store.coin.fExists
      [] k = 3 -> RetBlockFrom # 0
      [] k = 4 -> ret.store.fBlockReadable
      [] k = 5 -> ret.store.fTxFound
      [] k = 6 -> ret.store.fSigValid
      [] k = 7 -> ret.out.kernel.ok

SpecFirstFailing ==
    IF \E k \in 1..6 : ~SpecCheckPasses(k)
    THEN CHOOSE k \in 1..6 : ~SpecCheckPasses(k) /\ \A j \in 1..(k - 1) : SpecCheckPasses(j)
    ELSE 7

\* C4: CheckProofOfStake evaluates its checks in the order coinstake, coin
\* in the UTXO view, ancestor at the coin's height, block read, staked
\* transaction found, signature, kernel; it stops at the first that fails,
\* and the score of the rejection is that of this check: none for a
\* non-coinstake, 100 for a missing coin, a missing ancestor, an unreadable
\* block or a bad signature, 1 for a transaction not found or a failed
\* kernel check.
C4_CheckOrder ==
    CalledCheckProofOfStake =>
        LET k == SpecFirstFailing IN
        /\ ret.out.checks = SubSeq(SpecCheckOrder, 1, k)
        /\ ret.out.ok = SpecCheckPasses(k)
        /\ ret.out.nDoS = IF ret.out.ok THEN 0 ELSE SpecCheckScore[k]
        /\ k = 7 => ret.out.kernel.version \in {1, 2}
        /\ k < 7 => ret.out.kernel = NoKernel

\* the staked transaction is not found and the signature is bad: the
\* rejection is that of the transaction
C4_Witness ==
    /\ CalledCheckProofOfStake
    /\ ret.tx.fCoinStake /\ ret.store.coin.fExists /\ RetBlockFrom # 0
    /\ ret.store.fBlockReadable
    /\ ~ret.store.fTxFound /\ ~ret.store.fSigValid
    /\ ret.out.nDoS = 1

CalledCheckKernel == ret.op = "CheckKernel"

\* the kernel check of the protocol in force after the previous block, on
\* the arguments and stores of a call of CheckKernel
SpecKernelOk(fPrintProofOfStake) ==
    CheckStakeKernelHash(chain, mapBlockIndex, ret.pindexPrev, ret.nBits,
        RetBlockFrom, ReadTxOffsetIndex(chain[ret.pindexPrev].nHeight),
        ret.store.txPrev, ret.prevout, ret.txTime, 0, 0, fPrintProofOfStake,
        ret.store.nAdjustedTime).ok

SpecMature ==
    chain[ret.pindexPrev].nHeight + 1 - ret.store.coin.nHeight >= nCoinbaseMaturity

\* C5: CheckKernel succeeds exactly when the coin exists, is mature, has its
\* ancestor on the chain of the previous block, is unspent, its block is
\* readable, its transaction is found and the kernel check of the protocol
\* in force succeeds; for a coin that is mature and unspent and whose
\* signature verifies it answers as CheckProofOfStake does on a coinstake
\* of the same prevout and time.
C5_CheckKernelEquivalence ==
    CalledCheckKernel =>
        /\ ret.out.ok <=> /\ ret.store.coin.fExists
                          /\ SpecMature
                          /\ RetBlockFrom # 0
                          /\ ~ret.store.coin.fSpent
                          /\ ret.store.fBlockReadable
                          /\ ret.store.fTxFound
                          /\ SpecKernelOk(ret.store.fDebug)
        /\ (SpecMature /\ ~ret.store.coin.fSpent /\ ret.store.fSigValid) =>
              ret.out.ok = CheckProofOfStake(chain, mapBlockIndex, ret.pindexPrev,
                               [fCoinStake |-> TRUE, prevout |-> ret.prevout,
                                nTime |-> ret.txTime],
                               ret.nBits, 0, 0, ret.store).ok

\* CheckKernel accepts a coin that has just matured, with the debug flag set
C5_Witness ==
    /\ CalledCheckKernel
    /\ ret.out.ok
    /\ ret.store.fDebug /\ ret.store.fSigValid
    /\ chain[ret.pindexPrev].nHeight + 1 - ret.store.coin.nHeight = nCoinbaseMaturity

----------------------------------------------------------------------------
(* Properties of the kernel checks *)

CalledCheckStakeKernelHash == ret.op = "CheckStakeKernelHash"

\* the previous block of the call makes the next block one of the second
\* protocol
SpecSecondProtocol == chain[ret.pindexPrev].nHeight + 1 > nProtocolV2Height

\* the kernel hash of the second protocol on the arguments of the call, with
\* the stake modifier of the previous block
SpecProofV2 ==
    Hash(SerializeModifier(chain[ret.pindexPrev].nStakeModifier)
         \o <<chain[ret.blockFrom].nTime, ret.txPrev.nTime, ret.prevout.hash,
              ret.prevout.n, ret.nTimeTx>>)

\* the chain up to the previous block of the call
SpecChainToPrev == SubSeq(chain, 1, ret.pindexPrev)

C7_ProtocolSwitch ==
    CalledCheckStakeKernelHash =>
        /\ ret.out.version = IF chain[ret.pindexPrev].nHeight + 1 > nProtocolV2Height
                             THEN 2 ELSE 1
        /\ ret.out.version = 2 =>
              ret.out = CheckStakeKernelHashV2(chain, ret.pindexPrev, ret.nBits,
                            chain[ret.blockFrom].nTime, ret.txPrev, ret.prevout,
                            ret.nTimeTx, 0, 0, ret.fPrintProofOfStake)
        /\ ret.out.version = 1 =>
              ret.out = CheckStakeKernelHashV1(chain, mapBlockIndex, ret.nBits,
                            ret.blockFrom, ret.nTxPrevOffset, ret.txPrev,
                            ret.prevout, ret.nTimeTx, 0, 0,
                            ret.fPrintProofOfStake, 0)

\* the block at the switch height itself is checked, and accepted, under the
\* first protocol
C7_Witness ==
    /\ CalledCheckStakeKernelHash
    /\ chain[ret.pindexPrev].nHeight + 1 = nProtocolV2Height
    /\ ret.out.version = 1
    /\ ret.out.ok

CalledCheckCoinStakeTimestamp == ret.op = "CheckCoinStakeTimestamp"

\* bit k of n
SpecBit(n, k) == (n \div Pow2(k)) % 2

\* C8: CheckCoinStakeTimestamp accepts exactly when the time of the block is
\* the time of the coinstake and, above nProtocolV2Height, the time of the
\* coinstake has none of the bits of STAKE_TIMESTAMP_MASK.
C8_CoinStakeTimestamp ==
    CalledCheckCoinStakeTimestamp =>
        (ret.out <=>
            /\ ret.nTimeBlock = ret.nTimeTx
            /\ ret.nHeight > nProtocolV2Height =>
                  \A k \in 0..30 :
                      ~(SpecBit(ret.nTimeTx, k) = 1 /\ SpecBit(STAKE_TIMESTAMP_MASK, k) = 1))

\* at the switch height a time with bits of the mask is accepted
C8_Witness ==
    /\ CalledCheckCoinStakeTimestamp
    /\ ret.nHeight = nProtocolV2Height
    /\ ret.nTimeBlock = ret.nTimeTx
    /\ ret.nTimeTx % (STAKE_TIMESTAMP_MASK + 1) # 0
    /\ ret.out

----------------------------------------------------------------------------
(* Properties of GetKernelStakeModifier *)

CalledGetKernelStakeModifier ==
    ret.op = "GetKernelStakeModifier" /\ ret.hashBlockFrom \in DOMAIN mapBlockIndex

\* the block the walk starts from, and the time the modifier time must reach
RetFrom == mapBlockIndex[ret.hashBlockFrom]

RetWalkEnd == chain[RetFrom].nTime + GetStakeModifierSelectionInterval

\* the nodes after the block the walk starts from that generated a modifier
\* and are not before the time the modifier time must reach
SpecWalkEnds ==
    {i \in (RetFrom + 1)..Len(chain) :
        chain[i].fGenerated /\ chain[i].nTime >= RetWalkEnd}

\* the walk reaches the best block: no node ends it
SpecReachesBest == SpecWalkEnds = {}

\* C11 (as the specification states it): when the walk reaches the best
\* block, GetKernelStakeModifier returns a hard error exactly when it is
\* called in print mode or the time of the block the walk started from, plus
\* the min age, minus the selection interval, is after the clock, and a plain
\* false otherwise.  The code makes the test on the time of the best block.
C11_HardErrorOnFromTime ==
    (CalledGetKernelStakeModifier /\ SpecReachesBest) =>
        /\ ~ret.out.ok
        /\ ret.out.fError <=>
              \/ ret.fPrintProofOfStake
              \/ chain[RetFrom].nTime + nStakeMinAge - GetStakeModifierSelectionInterval
                   > ret.nAdjustedTime

\* C11 (amended): when the walk reaches the best block, GetKernelStakeModifier
\* returns a hard error exactly when it is called in print mode or the time
\* of the best block, the node the walk stopped at, plus the min age, minus
\* the selection interval, is after the clock, and a plain false otherwise.
C11_HardErrorOnBestTime ==
    (CalledGetKernelStakeModifier /\ SpecReachesBest) =>
        /\ ~ret.out.ok
        /\ ret.out.pindex = Len(chain)
        /\ ret.out.fError <=>
              \/ ret.fPrintProofOfStake
              \/ chain[Len(chain)].nTime + nStakeMinAge
                     - GetStakeModifierSelectionInterval
                   > ret.nAdjustedTime

\* a hard error out of print mode, where the time of the block the walk
\* started from would give a plain false
C11_Witness ==
    /\ CalledGetKernelStakeModifier /\ SpecReachesBest
    /\ ~ret.fPrintProofOfStake
    /\ ret.out.fError
    /\ RetFrom # Len(chain)
    /\ ~(chain[RetFrom].nTime + nStakeMinAge - GetStakeModifierSelectionInterval
           > ret.nAdjustedTime)

\* the least of a non-empty set of nodes
SpecFirst(S) == CHOOSE i \in S : \A j \in S : i <= j

\* C12: when GetKernelStakeModifier succeeds, the modifier it returns is
\* that of the first node after the block the walk starts from that
\* generated a modifier and whose time is at least that block's time plus
\* the selection interval; the nodes before it, flagged or not, do not end
\* the walk.
C12_FirstLaterModifier ==
    (CalledGetKernelStakeModifier /\ ret.out.ok) =>
        /\ SpecWalkEnds # {}
        /\ ret.out.pindex = SpecFirst(SpecWalkEnds)
        /\ ret.out.nStakeModifier = chain[SpecFirst(SpecWalkEnds)].nStakeModifier
        /\ ret.out.nStakeModifierHeight = chain[SpecFirst(SpecWalkEnds)].nHeight
        /\ ret.out.nStakeModifierTime = chain[SpecFirst(SpecWalkEnds)].nTime

\* the walk passes a flagged node that is too early and an unflagged node
\* that is late enough, and ends at a node with another modifier
C12_Witness ==
    /\ CalledGetKernelStakeModifier /\ ret.out.ok
    /\ \E i, j \in (RetFrom + 1)..(ret.out.pindex - 1) :
          /\ chain[i].fGenerated /\ chain[i].nTime < RetWalkEnd
          /\ ~chain[j].fGenerated /\ chain[j].nTime >= RetWalkEnd
          /\ chain[j].nStakeModifier # ret.out.nStakeModifier

============================================================================
